---- MODULE Spec2Model ----
(***************************************************************************)
(* Model of the Microchip chat application: the one-shot endpoint          *)
(* (src/app/api/chat/route.ts), the streaming endpoint                     *)
(* (src/app/api/chat/stream/route.ts) and the chat page (src/app/page.tsx).*)
(*                                                                         *)
(* A JavaScript string is a sequence of one-character strings.  On the     *)
(* event-stream wire a few fixed pieces of text ("data: ", "event: done",  *)
(* the JSON punctuation around a token, an escaped character) are kept as  *)
(* one element each, so a response can be cut between any two elements.    *)
(***************************************************************************)
EXTENDS Integers, Sequences, FiniteSets, TLC

VARIABLES
    apiKey,        \* process.env.GOOGLE_API_KEY is set
    spc,           \* position of the endpoint handler
    endpoint,      \* which handler runs: "none", "primary", "stream"
    body,          \* the request body being handled
    contents,      \* the content array handed to the backend
    backendCalls,  \* calls made to the generative backend for this request
    result,        \* what generateContent resolved to
    response,      \* the response returned by the handler
    fragments,     \* the fragments the backend stream has produced so far
    backend,       \* the backend call: "none", "resolved", "rejected", and for a
                   \* stream that was opened "open", "exhausted", "failed"
    records,       \* the chunks enqueued on the response stream
    closed,        \* controller.close() was called
    messages,      \* page state: the conversation
    input,         \* page state: the text being composed
    useStreaming,  \* page state: the streaming toggle
    isLoading,     \* page state: the loading flag
    upc,           \* position of the running onSend ("idle" when none runs)
    prompt,        \* onSend: the trimmed input
    onSend_messages, \* onSend: the `messages` its closure was rendered with
    request,       \* the request handed to fetch and not yet settled
    wire,          \* the chunks of the response body not yet read
    transport,     \* whether the transport re-cuts the chunks the server enqueued
    served,        \* the token texts the response being read was built from
    lines,         \* sendStreaming: the lines of the current chunk still to handle
    assistantText, \* sendStreaming: the accumulator
    tokens,        \* the tokens sendStreaming has taken from the response so far
    submitsLeft,   \* accepted submissions the run may still make
    tokensLeft,    \* tokens the streamed responses of the run may still carry
    outcome,       \* how the endpoint call of the last submission settled
    submit,        \* what the last Submit did: "none", "accepted", "ignored"
    lpc,           \* position of the local-model handler
    lbody,         \* the request body the local-model handler received
    forwarded      \* the request the local-model handler sent to the local backend

svars == <<apiKey, spc, endpoint, body, contents, backendCalls, result, response,
           fragments, backend, records, closed>>

uvars == <<messages, input, useStreaming, isLoading, upc, prompt, onSend_messages,
           request, wire, transport, served, lines, assistantText, tokens,
           submitsLeft, tokensLeft, outcome, submit>>

lvars == <<lpc, lbody, forwarded>>

vars == <<svars, uvars, lvars>>

\* ------------------------------------------------------------------ bounds

MaxHistory == 2
MaxFragments == 3
MaxSubmits == 2
MaxTokens == 2
MaxLiveSubmits == 1

\* ----------------------------------------------------------------- strings

Whitespace == {" ", "\n", "\t", "\r"}

RECURSIVE TrimStart(_)
TrimStart(s) ==
    IF s = <<>> THEN s
    ELSE IF Head(s) \in Whitespace THEN TrimStart(Tail(s)) ELSE s

RECURSIVE TrimEnd(_)
TrimEnd(s) ==
    IF s = <<>> THEN s
    ELSE IF s[Len(s)] \in Whitespace THEN TrimEnd(SubSeq(s, 1, Len(s) - 1)) ELSE s

trim(s) == TrimEnd(TrimStart(s))

\* ------------------------------------------------------- JavaScript values

Undef == [t |-> "undefined", s |-> <<>>, n |-> 0]
Null == [t |-> "null", s |-> <<>>, n |-> 0]
Str(s) == [t |-> "string", s |-> s, n |-> 0]
Num(n) == [t |-> "number", s |-> <<>>, n |-> n]
Obj == [t |-> "object", s |-> <<>>, n |-> 0]

DigitChar == <<"0", "1", "2", "3", "4", "5", "6", "7", "8", "9">>

RECURSIVE DecimalDigits(_)
DecimalDigits(n) ==
    IF n < 10 THEN <<DigitChar[n + 1]>>
    ELSE DecimalDigits(n \div 10) \o <<DigitChar[(n % 10) + 1]>>

ObjectText == <<"[", "o", "b", "j", "e", "c", "t", " ", "O", "b", "j", "e", "c", "t", "]">>

\* v ?? d
Coalesce(v, d) == IF v.t \in {"undefined", "null"} THEN d ELSE v

\* String(v) for a value that is not nullish
String(v) ==
    CASE v.t = "string" -> v.s
      [] v.t = "number" -> DecimalDigits(v.n)
      [] v.t = "object" -> ObjectText
      [] v.t = "null" -> <<"n", "u", "l", "l">>
      [] OTHER -> <<"u", "n", "d", "e", "f", "i", "n", "e", "d">>

USER == <<"u", "s", "e", "r">>
ASSISTANT == <<"a", "s", "s", "i", "s", "t", "a", "n", "t">>
BOGUS == <<"b", "o", "g", "u", "s">>

\* --------------------------------------------------------- request bodies

\* One element of body.history: a JSON object with optional role and content,
\* or the JSON value null.
ObjEntry(r, c) == [kind |-> "object", role |-> r, content |-> c]
NullEntry == [kind |-> "null", role |-> Undef, content |-> Undef]

HistoryEntries ==
    { NullEntry,
      ObjEntry(Str(USER), Str(<<" ", "a", " ">>)),
      ObjEntry(Str(ASSISTANT), Str(<<"b">>)),
      ObjEntry(Str(BOGUS), Str(<<" ", "a", " ">>)),
      ObjEntry(Undef, Str(<<"b">>)),
      ObjEntry(Str(USER), Str(<<" ", "\n">>)),
      ObjEntry(Str(ASSISTANT), Undef),
      ObjEntry(Str(ASSISTANT), Num(0)),
      ObjEntry(Null, Obj) }

RECURSIVE SeqsUpTo(_, _)
SeqsUpTo(S, n) ==
    IF n = 0 THEN {<<>>}
    ELSE LET shorter == SeqsUpTo(S, n - 1)
         IN  shorter \cup {Append(s, x) : s \in shorter, x \in S}

\* body.history: absent, null, an array, or a value of another type
HistoryValues ==
    {[t |-> k, items |-> <<>>] : k \in {"undefined", "null", "string", "number", "object"}}
    \cup {[t |-> "array", items |-> s] : s \in SeqsUpTo(HistoryEntries, MaxHistory)}

PromptValues == {Undef, Str(<<" ", "q">>), Num(42)}

NoHistory == [t |-> "undefined", items |-> <<>>]

\* What req.json() yields: a syntax error, the value null, or an object
Bodies ==
    {[kind |-> "invalid", history |-> NoHistory, prompt |-> Undef],
     [kind |-> "null", history |-> NoHistory, prompt |-> Undef]}
    \cup {[kind |-> "object", history |-> h, prompt |-> p] :
            h \in HistoryValues, p \in PromptValues}

NoBody == [kind |-> "none", history |-> NoHistory, prompt |-> Undef]

\* A thrown value: err?.message is a string or is missing
Err(m) == [message |-> m]
BackendErrors == {Err(Str(<<"b", "o", "o", "m">>)), Err(Undef)}
SyntaxError == Err(Str(<<"Unexpected token in JSON">>))
MapTypeError == Err(Str(<<"historyUnsafe.map is not a function">>))

\* ------------------------------------------------- one-shot endpoint (POST)

Primary_SYSTEM_PREAMBLE == <<"You are \"Microchip\", the AI assistant for AISoc ...">>

\* m?.role and m?.content
Primary_role(m) == IF m.kind = "object" THEN m.role ELSE Undef
Primary_content(m) == IF m.kind = "object" THEN m.content ELSE Undef

Primary_prompt(b) ==
    String(Coalesce(IF b.kind = "object" THEN b.prompt ELSE Undef, Str(<<>>)))

\* (body?.history ?? [])
Primary_historyUnsafe(b) ==
    LET h == IF b.kind = "object" THEN b.history ELSE NoHistory
    IN  IF h.t \in {"undefined", "null"} THEN [t |-> "array", items |-> <<>>] ELSE h

\* historyUnsafe.map is not a function
Primary_mapThrows(b) == Primary_historyUnsafe(b).t # "array"

Primary_mapEntry(m) ==
    [role |-> IF Primary_role(m) = Str(USER) \/ Primary_role(m) = Str(ASSISTANT)
              THEN Primary_role(m).s ELSE USER,
     content |-> String(Coalesce(Primary_content(m), Str(<<>>)))]

\* Primary_keep without trim()
Primary_keep_untrimmed(m) == Len(m.content) > 0

Primary_keep(m) == Len(trim(m.content)) > 0

Primary_history(b) ==
    LET items == Primary_historyUnsafe(b).items
        mapped == [i \in 1..Len(items) |-> Primary_mapEntry(items[i])]
    IN  SelectSeq(mapped, Primary_keep)

Primary_turn(m) ==
    [role |-> IF m.role = USER THEN "user" ELSE "model", text |-> m.content]

Primary_contents(b) ==
    LET history == Primary_history(b)
    IN  <<[role |-> "user", text |-> Primary_SYSTEM_PREAMBLE]>>
        \o [i \in 1..Len(history) |-> Primary_turn(history[i])]
        \o <<[role |-> "user", text |-> Primary_prompt(b)]>>

\* err?.message ?? "Server error"
Primary_errorMessage(e) == Coalesce(e.message, Str(<<"Server error">>)).s

NoResponse == [status |-> 0, kind |-> "none", text |-> <<>>]
JsonError(msg) == [status |-> 500, kind |-> "json-error", text |-> msg]
JsonReply(t) == [status |-> 200, kind |-> "json-reply", text |-> t]

\* What generateContent resolves to.  Every level below the result may be
\* missing: result.response?.candidates?.[0]?.content?.parts?.[0]?.text
Part(t) == [text |-> t]
Parts(present, items) == [present |-> present, items |-> items]
Candidate(hasContent, parts) == [content |-> hasContent, parts |-> parts]
Candidates(present, items) == [present |-> present, items |-> items]
Result(hasResponse, candidates) == [response |-> hasResponse, candidates |-> candidates]

HELLO == <<"H", "e", "l", "l", "o">>
OTHER_TEXT == <<"x">>
NoParts == Parts(FALSE, <<>>)
NoCandidates == Candidates(FALSE, <<>>)
OneCandidate(c) == Result(TRUE, Candidates(TRUE, <<c>>))

GenerateResults ==
    { Result(FALSE, NoCandidates),
      Result(TRUE, NoCandidates),
      Result(TRUE, Candidates(TRUE, <<>>)),
      OneCandidate(Candidate(FALSE, NoParts)),
      OneCandidate(Candidate(TRUE, NoParts)),
      OneCandidate(Candidate(TRUE, Parts(TRUE, <<>>))),
      OneCandidate(Candidate(TRUE, Parts(TRUE, <<Part(Undef)>>))),
      OneCandidate(Candidate(TRUE, Parts(TRUE, <<Part(Str(<<>>))>>))),
      OneCandidate(Candidate(TRUE, Parts(TRUE, <<Part(Str(HELLO))>>))),
      OneCandidate(Candidate(TRUE, Parts(TRUE, <<Part(Str(HELLO)), Part(Str(OTHER_TEXT))>>))),
      OneCandidate(Candidate(TRUE, Parts(TRUE, <<Part(Undef), Part(Str(OTHER_TEXT))>>))),
      Result(TRUE, Candidates(TRUE,
          <<Candidate(TRUE, Parts(TRUE, <<Part(Str(HELLO))>>)),
            Candidate(TRUE, Parts(TRUE, <<Part(Str(OTHER_TEXT))>>))>>)),
      Result(TRUE, Candidates(TRUE,
          <<Candidate(FALSE, NoParts),
            Candidate(TRUE, Parts(TRUE, <<Part(Str(OTHER_TEXT))>>))>>)) }

NoResult == Result(FALSE, NoCandidates)

\* result.response?.candidates?.[0]?.content?.parts?.[0]?.text
Primary_extract(r) ==
    IF ~r.response \/ ~r.candidates.present
       \/ Len(r.candidates.items) = 0 THEN Undef
    ELSE LET c == r.candidates.items[1]
         IN  IF ~c.content \/ ~c.parts.present \/ Len(c.parts.items) = 0 THEN Undef
             ELSE c.parts.items[1].text

\* Primary_text with || in place of ??
Primary_text_falsy(r) ==
    IF Primary_extract(r).t = "string" /\ Primary_extract(r).s # <<>>
    THEN Primary_extract(r).s ELSE <<".", ".", ".">>

\* ... ?? "..."
Primary_text(r) == Coalesce(Primary_extract(r), Str(<<".", ".", ".">>)).s

\* ------------------------------------------------ streaming endpoint (POST)

Stream_SYSTEM_PREAMBLE == <<"You are \"Microchip\", the AI assistant for AISoc ...">>

Stream_role(m) == IF m.kind = "object" THEN m.role ELSE Undef
Stream_content(m) == IF m.kind = "object" THEN m.content ELSE Undef

\* Stream_prompt that trims the prompt
Stream_prompt_trimmed(b) ==
    trim(String(Coalesce(IF b.kind = "object" THEN b.prompt ELSE Undef, Str(<<>>))))

Stream_prompt(b) ==
    String(Coalesce(IF b.kind = "object" THEN b.prompt ELSE Undef, Str(<<>>)))

Stream_historyUnsafe(b) ==
    LET h == IF b.kind = "object" THEN b.history ELSE NoHistory
    IN  IF h.t \in {"undefined", "null"} THEN [t |-> "array", items |-> <<>>] ELSE h

Stream_mapThrows(b) == Stream_historyUnsafe(b).t # "array"

\* Stream_mapEntry that keeps the role it was given
Stream_mapEntry_keepsRole(m) ==
    [role |-> Stream_role(m).s,
     content |-> String(Coalesce(Stream_content(m), Str(<<>>)))]

Stream_mapEntry(m) ==
    [role |-> IF Stream_role(m) = Str(USER) \/ Stream_role(m) = Str(ASSISTANT)
              THEN Stream_role(m).s ELSE USER,
     content |-> String(Coalesce(Stream_content(m), Str(<<>>)))]

Stream_keep(m) == Len(trim(m.content)) > 0

Stream_history(b) ==
    LET items == Stream_historyUnsafe(b).items
        mapped == [i \in 1..Len(items) |-> Stream_mapEntry(items[i])]
    IN  SelectSeq(mapped, Stream_keep)

Stream_turn(m) ==
    [role |-> IF m.role = USER THEN "user" ELSE "model", text |-> m.content]

\* Stream_contents that pushes the prompt turn only for a non-empty prompt
Stream_contents_skipsEmptyPrompt(b) ==
    LET history == Stream_history(b)
    IN  <<[role |-> "user", text |-> Stream_SYSTEM_PREAMBLE]>>
        \o [i \in 1..Len(history) |-> Stream_turn(history[i])]
        \o (IF Stream_prompt(b) = <<>> THEN <<>>
            ELSE <<[role |-> "user", text |-> Stream_prompt(b)]>>)

Stream_contents(b) ==
    LET history == Stream_history(b)
    IN  <<[role |-> "user", text |-> Stream_SYSTEM_PREAMBLE]>>
        \o [i \in 1..Len(history) |-> Stream_turn(history[i])]
        \o <<[role |-> "user", text |-> Stream_prompt(b)]>>

Stream_errorMessage(e) == Coalesce(e.message, Str(<<"Server error">>)).s

TextError(msg) == [status |-> 500, kind |-> "text", text |-> msg]
StreamResponse == [status |-> 200, kind |-> "stream", text |-> <<>>]

\* The text a backend fragment carries (chunk.text())
FragmentTexts == {<<>>, <<"A">>, <<"B", "\n">>}

\* JSON.stringify of a string: the characters that cannot stand in a JSON
\* string are escaped
JSONEscape(c) ==
    CASE c = "\n" -> "\\n"
      [] c = "\"" -> "\\\""
      [] c = "\\" -> "\\\\"
      [] OTHER -> c

JSONStringifyToken(text) ==
    <<"{\"token\":\"">> \o [i \in 1..Len(text) |-> JSONEscape(text[i])] \o <<"\"}">>

JSONStringifyError(text) ==
    <<"{\"error\":\"">> \o [i \in 1..Len(text) |-> JSONEscape(text[i])] \o <<"\"}">>

\* send(data): `data: ${data}\n\n`
send(data) == <<"data: ">> \o data \o <<"\n", "\n">>

TokenRecord(text) == send(JSONStringifyToken(text))

DoneRecord == <<"event: done", "\n", "data: ", "[DONE]", "\n", "\n">>

\* e?.message ?? "stream error"
ErrorRecord(e) ==
    <<"event: error", "\n", "data: ">>
    \o JSONStringifyError(Coalesce(e.message, Str(<<"stream error">>)).s)
    \o <<"\n", "\n">>

\* ------------------------------------------------------- endpoint actions

ServerInit ==
    /\ apiKey \in BOOLEAN
    /\ spc = "idle"
    /\ endpoint = "none"
    /\ body = NoBody
    /\ contents = <<>>
    /\ backendCalls = 0
    /\ result = NoResult
    /\ response = NoResponse
    /\ fragments = <<>>
    /\ backend = "none"
    /\ records = <<>>
    /\ closed = FALSE

\* A handler answers without reaching the backend
Answer(ep, b, r) ==
    /\ endpoint' = ep
    /\ body' = b
    /\ response' = r
    /\ contents' = <<>>
    /\ backendCalls' = 0
    /\ spc' = "done"

\* A handler reaches the backend call and waits for it
CallBackend(ep, b, c, at) ==
    /\ endpoint' = ep
    /\ body' = b
    /\ response' = NoResponse
    /\ contents' = c
    /\ backendCalls' = 1
    /\ spc' = at

\* Primary_request without the credential check
Primary_request_noKeyCheck(b) ==
    /\ IF b.kind = "invalid"
       THEN Answer("primary", b, JsonError(Primary_errorMessage(SyntaxError)))
       ELSE IF Primary_mapThrows(b)
       THEN Answer("primary", b, JsonError(Primary_errorMessage(MapTypeError)))
       ELSE CallBackend("primary", b, Primary_contents(b), "generateContent")
    /\ result' = NoResult
    /\ fragments' = <<>>
    /\ backend' = "none"
    /\ records' = <<>>
    /\ closed' = FALSE
    /\ UNCHANGED apiKey

\* route.ts POST, up to `await model.generateContent({ contents })`
Primary_request(b) ==
    /\ IF b.kind = "invalid"
       THEN Answer("primary", b, JsonError(Primary_errorMessage(SyntaxError)))
       ELSE IF ~apiKey
       THEN Answer("primary", b, JsonError(<<"Missing GOOGLE_API_KEY">>))
       ELSE IF Primary_mapThrows(b)
       THEN Answer("primary", b, JsonError(Primary_errorMessage(MapTypeError)))
       ELSE CallBackend("primary", b, Primary_contents(b), "generateContent")
    /\ result' = NoResult
    /\ fragments' = <<>>
    /\ backend' = "none"
    /\ records' = <<>>
    /\ closed' = FALSE
    /\ UNCHANGED apiKey

Primary_POST ==
    /\ spc = "idle"
    /\ \E b \in Bodies : Primary_request(b)
    /\ UNCHANGED <<uvars, lvars>>

\* generateContent resolves: the reply is extracted and returned
Primary_generateContentReturns(r) ==
    /\ spc = "generateContent"
    /\ result' = r
    /\ response' = JsonReply(Primary_text(r))
    /\ backend' = "resolved"
    /\ spc' = "done"
    /\ UNCHANGED <<apiKey, endpoint, body, contents, backendCalls, fragments,
                   records, closed>>
    /\ UNCHANGED <<uvars, lvars>>

\* generateContent rejects: the outer catch answers
Primary_generateContentThrows(e) ==
    /\ spc = "generateContent"
    /\ response' = JsonError(Primary_errorMessage(e))
    /\ backend' = "rejected"
    /\ spc' = "done"
    /\ UNCHANGED <<apiKey, result, endpoint, body, contents, backendCalls, fragments,
                   records, closed>>
    /\ UNCHANGED <<uvars, lvars>>

\* stream/route.ts POST, up to `await model.generateContentStream({ contents })`
Stream_request(b) ==
    /\ IF b.kind = "invalid"
       THEN Answer("stream", b, TextError(Stream_errorMessage(SyntaxError)))
       ELSE IF ~apiKey
       THEN Answer("stream", b, TextError(<<"Missing GOOGLE_API_KEY">>))
       ELSE IF Stream_mapThrows(b)
       THEN Answer("stream", b, TextError(Stream_errorMessage(MapTypeError)))
       ELSE CallBackend("stream", b, Stream_contents(b), "generateContentStream")
    /\ result' = NoResult
    /\ fragments' = <<>>
    /\ backend' = "none"
    /\ records' = <<>>
    /\ closed' = FALSE
    /\ UNCHANGED apiKey

Stream_POST ==
    /\ spc = "idle"
    /\ \E b \in Bodies : Stream_request(b)
    /\ UNCHANGED <<uvars, lvars>>

\* generateContentStream resolves: the response stream is created and returned
Stream_generateContentStreamReturns ==
    /\ spc = "generateContentStream"
    /\ response' = StreamResponse
    /\ backend' = "open"
    /\ spc' = "streaming"
    /\ UNCHANGED <<apiKey, result, endpoint, body, contents, backendCalls, fragments,
                   records, closed>>
    /\ UNCHANGED <<uvars, lvars>>

\* generateContentStream rejects: the outer catch answers
Stream_generateContentStreamThrows(e) ==
    /\ spc = "generateContentStream"
    /\ response' = TextError(Stream_errorMessage(e))
    /\ backend' = "rejected"
    /\ spc' = "done"
    /\ UNCHANGED <<apiKey, result, endpoint, body, contents, backendCalls, fragments,
                   records, closed>>
    /\ UNCHANGED <<uvars, lvars>>

\* Stream_chunk without `if (text)`: an empty fragment is sent as a token
Stream_chunk_everyFragment(text) ==
    /\ spc = "streaming"
    /\ Len(fragments) < MaxFragments
    /\ fragments' = Append(fragments, text)
    /\ records' = Append(records, TokenRecord(text))
    /\ UNCHANGED <<apiKey, result, spc, endpoint, body, contents, backendCalls, response,
                   backend, closed>>
    /\ UNCHANGED <<uvars, lvars>>

\* One turn of `for await (const chunk of response.stream)`
Stream_chunk(text) ==
    /\ spc = "streaming"
    /\ Len(fragments) < MaxFragments
    /\ fragments' = Append(fragments, text)
    /\ records' = IF text # <<>> THEN Append(records, TokenRecord(text)) ELSE records
    /\ UNCHANGED <<apiKey, result, spc, endpoint, body, contents, backendCalls, response,
                   backend, closed>>
    /\ UNCHANGED <<uvars, lvars>>

\* The backend stream is exhausted: done record, close
Stream_done ==
    /\ spc = "streaming"
    /\ records' = Append(records, DoneRecord)
    /\ closed' = TRUE
    /\ backend' = "exhausted"
    /\ spc' = "done"
    /\ UNCHANGED <<apiKey, result, endpoint, body, contents, backendCalls, response, fragments>>
    /\ UNCHANGED <<uvars, lvars>>

\* Stream_catch that goes on consuming the backend stream after the error record
Stream_catch_keepsOpen(e) ==
    /\ spc = "streaming"
    /\ records' = Append(records, ErrorRecord(e))
    /\ closed' = TRUE
    /\ backend' = "failed"
    /\ UNCHANGED <<apiKey, result, spc, endpoint, body, contents, backendCalls, response,
                   fragments>>
    /\ UNCHANGED <<uvars, lvars>>

\* Consuming the backend stream throws: error record, close
Stream_catch(e) ==
    /\ spc = "streaming"
    /\ records' = Append(records, ErrorRecord(e))
    /\ closed' = TRUE
    /\ backend' = "failed"
    /\ spc' = "done"
    /\ UNCHANGED <<apiKey, result, endpoint, body, contents, backendCalls, response, fragments>>
    /\ UNCHANGED <<uvars, lvars>>

\* The response is complete and the handler's locals are gone; the next
\* request starts from nothing but the process environment
Handler_return ==
    /\ spc = "done"
    /\ spc' = "idle"
    /\ endpoint' = "none"
    /\ body' = NoBody
    /\ contents' = <<>>
    /\ backendCalls' = 0
    /\ result' = NoResult
    /\ response' = NoResponse
    /\ fragments' = <<>>
    /\ backend' = "none"
    /\ records' = <<>>
    /\ closed' = FALSE
    /\ UNCHANGED apiKey
    /\ UNCHANGED <<uvars, lvars>>

\* ------------------------------------------------------------ the chat page

Msg(role, content) == [role |-> role, content |-> content]

GREETING == <<"Hi! I'm Microchip, AISoc's friendly assistant. ...">>
FALLBACK == <<"Sorry, something went wrong. Please try again in a moment.">>

\* What the user may type into the input field
InputTexts == {<<" ">>, <<" ", "h", " ", "i", "\n">>}

\* The token texts a streamed response may carry
TokenTexts == {<<"A">>, <<"\n", "B">>}

NoRequest == [url |-> "none", history |-> <<>>, prompt |-> <<>>]

\* buildPayload that reads the `messages` of the state at the time of the call
buildPayload_fromState(p) ==
    [history |-> [i \in 1..Len(messages) |->
                    [role |-> messages[i].role,
                     content |-> messages[i].content]],
     prompt |-> p]

\* buildPayload: history is the `messages` of the closure, role and content only
buildPayload(p) ==
    [history |-> [i \in 1..Len(onSend_messages) |->
                    [role |-> onSend_messages[i].role,
                     content |-> onSend_messages[i].content]],
     prompt |-> p]

\* fetch(url, { body: JSON.stringify(payload) })
fetch(url, payload) ==
    [url |-> url, history |-> payload.history, prompt |-> payload.prompt]

\* What the one-shot endpoint can answer the page: the call rejects, or a
\* response arrives whose body is JSON with or without a reply
ReplyResponse(kind, ok, reply) == [kind |-> kind, ok |-> ok, reply |-> reply]

PrimaryResponses ==
    {ReplyResponse("reject", FALSE, Undef), ReplyResponse("http", FALSE, Undef),
     ReplyResponse("http", TRUE, Undef)}
    \cup {ReplyResponse("http", TRUE, Str(Primary_text(r))) : r \in GenerateResults}

\* Records a response body may carry that are not from the streaming
\* endpoint and that the client is written to skip: none, a token record with
\* an empty token, a keep-alive data line that is not JSON
NoiseRecords ==
    { <<>>,
      <<"data: ", "{\"token\":\"", "\"}", "\n", "\n">>,
      <<"data: ", "k", "\n", "\n">> }

\* The chunks the streaming endpoint enqueues for the fragments `frags` and
\* the way the backend stream ends
RECURSIVE TokenRecords(_)
TokenRecords(frags) ==
    IF frags = <<>> THEN <<>>
    ELSE (IF Head(frags) # <<>> THEN <<TokenRecord(Head(frags))>> ELSE <<>>)
         \o TokenRecords(Tail(frags))

StreamEndings == {"done", "error"}

StreamBody(frags, ending, noise) ==
    TokenRecords(frags)
    \o (IF noise = <<>> THEN <<>> ELSE <<noise>>)
    \o <<IF ending = "done" THEN DoneRecord
         ELSE ErrorRecord(Err(Str(<<"b", "o", "o", "m">>)))>>

\* What the streaming endpoint can answer the page
StreamAnswer(kind, ok, hasBody, frags, ending, noise) ==
    [kind |-> kind, ok |-> ok, hasBody |-> hasBody, frags |-> frags, ending |-> ending,
     noise |-> noise]

StreamResponses ==
    {StreamAnswer("reject", FALSE, FALSE, <<>>, "done", <<>>),
     StreamAnswer("http", FALSE, TRUE, <<>>, "done", <<>>),
     StreamAnswer("http", TRUE, FALSE, <<>>, "done", <<>>)}
    \cup {StreamAnswer("http", TRUE, TRUE, f, e, n) :
            f \in SeqsUpTo(TokenTexts, MaxTokens), e \in StreamEndings, n \in NoiseRecords}

\* What a response takes of the budget of the run
Cost(res) == Len(res.frags) + (IF res.noise = <<>> THEN 0 ELSE 1)

RECURSIVE Flatten(_)
Flatten(ss) == IF ss = <<>> THEN <<>> ELSE Head(ss) \o Flatten(Tail(ss))

\* chunk.split("\n")
RECURSIVE split(_)
split(chunk) ==
    IF \A i \in 1..Len(chunk) : chunk[i] # "\n" THEN <<chunk>>
    ELSE LET i == CHOOSE k \in 1..Len(chunk) :
                    chunk[k] = "\n" /\ \A j \in 1..(k - 1) : chunk[j] # "\n"
         IN  <<SubSeq(chunk, 1, i - 1)>> \o split(SubSeq(chunk, i + 1, Len(chunk)))

\* trimmed.startsWith("data: "): a line that is "data: " alone loses its
\* trailing blank when trimmed
startsWithData(trimmed) == Len(trimmed) >= 2 /\ trimmed[1] = "data: "

\* trimmed.slice(6)
slice6(trimmed) == Tail(trimmed)

JSONUnescape(c) ==
    CASE c = "\\n" -> "\n"
      [] c = "\\\"" -> "\""
      [] c = "\\\\" -> "\\"
      [] OTHER -> c

\* The elements that can stand between the quotes of a JSON string
JSONStringChar(c) ==
    c \notin {"\n", "\"", "\\", "{\"token\":\"", "{\"error\":\"", "\"}",
              "data: ", "[DONE]", "event: done", "event: error"}

\* JSON.parse(payload) as { token?: string }: the token of the object, Undef
\* when the object has none; ok is FALSE when JSON.parse throws
JSONParse(payload) ==
    IF /\ Len(payload) >= 2
       /\ payload[1] \in {"{\"token\":\"", "{\"error\":\""}
       /\ payload[Len(payload)] = "\"}"
       /\ \A i \in 2..(Len(payload) - 1) : JSONStringChar(payload[i])
    THEN [ok |-> TRUE,
          token |-> IF payload[1] = "{\"token\":\""
                    THEN Str([i \in 1..(Len(payload) - 2) |-> JSONUnescape(payload[i + 1])])
                    ELSE Undef]
    ELSE [ok |-> FALSE, token |-> Undef]

\* The token a line of the response carries: Undef when the line is skipped
lineToken(line) ==
    LET trimmed == trim(line)
        payload == slice6(trimmed)
        obj == JSONParse(payload)
    IN  IF trimmed = <<>> THEN Undef
        ELSE IF ~startsWithData(trimmed) THEN Undef
        ELSE IF payload = <<"[DONE]">> THEN Undef
        ELSE IF ~obj.ok THEN Undef
        ELSE IF obj.token.t = "string" /\ obj.token.s # <<>> THEN obj.token
        ELSE Undef

\* updateLast that adds a message instead of replacing the last one
updateLast_appends(prev, text) == Append(prev, [role |-> "assistant", content |-> text])

\* setMessages((prev) => ...): the last message gets the accumulator as content
updateLast(prev, text) ==
    [prev EXCEPT ![Len(prev)] = [role |-> prev[Len(prev)].role, content |-> text]]

\* catch that puts the fallback in the place of the last message
catch_replacesLast(m) == [m EXCEPT ![Len(m)] = Msg("assistant", FALLBACK)]

\* catch of onSend: the fallback message is appended
catch(m) == Append(m, Msg("assistant", FALLBACK))

UIInit ==
    /\ messages = <<Msg("assistant", GREETING)>>
    /\ input = <<>>
    /\ useStreaming = TRUE
    /\ isLoading = FALSE
    /\ upc = "idle"
    /\ prompt = <<>>
    /\ onSend_messages = <<>>
    /\ request = NoRequest
    /\ wire = <<>>
    /\ served = <<>>
    /\ lines = <<>>
    /\ assistantText = <<>>
    /\ tokens = <<>>
    /\ outcome = "none"
    /\ submit = "none"

\* The page's event handlers run between the steps of a pending onSend, at
\* its awaits
AtAwait == upc \in {"idle", "fetch", "fetchStream", "read"}

\* onChange of the input field
onChange(text) ==
    /\ AtAwait
    /\ input' = text
    /\ UNCHANGED <<messages, useStreaming, isLoading, upc, prompt, onSend_messages,
                   request, wire, transport, served, lines, assistantText, tokens,
                   submitsLeft, tokensLeft, outcome>>
    /\ UNCHANGED <<submit, svars, lvars>>

\* onClick of the streaming switch
toggle ==
    /\ AtAwait
    /\ useStreaming' = ~useStreaming
    /\ UNCHANGED <<messages, input, isLoading, upc, prompt, onSend_messages,
                   request, wire, transport, served, lines, assistantText, tokens,
                   submitsLeft, tokensLeft, outcome>>
    /\ UNCHANGED <<submit, svars, lvars>>

\* onSend that appends the input as typed
onSend_untrimmed ==
    /\ AtAwait
    /\ IF trim(input) = <<>> \/ isLoading
       THEN /\ submit' = "ignored"
            /\ UNCHANGED <<messages, input, useStreaming, isLoading, upc, prompt,
                           onSend_messages, request, wire, transport, served, lines,
                           assistantText, tokens, submitsLeft, tokensLeft, outcome>>
       ELSE /\ submitsLeft > 0
            /\ submitsLeft' = submitsLeft - 1
            /\ prompt' = trim(input)
            /\ onSend_messages' = messages
            /\ input' = <<>>
            /\ messages' = Append(messages, Msg("user", input))
            /\ isLoading' = TRUE
            /\ upc' = "try"
            /\ outcome' = "pending"
            /\ submit' = "accepted"
            /\ UNCHANGED <<useStreaming, request, wire, transport, served, lines,
                           assistantText, tokens, tokensLeft>>
    /\ UNCHANGED <<svars, lvars>>

\* onSend without the isLoading half of its guard
onSend_noLoadingGuard ==
    /\ AtAwait
    /\ IF trim(input) = <<>>
       THEN /\ submit' = "ignored"
            /\ UNCHANGED <<messages, input, useStreaming, isLoading, upc, prompt,
                           onSend_messages, request, wire, transport, served, lines,
                           assistantText, tokens, submitsLeft, tokensLeft, outcome>>
       ELSE /\ submitsLeft > 0
            /\ submitsLeft' = submitsLeft - 1
            /\ prompt' = trim(input)
            /\ onSend_messages' = messages
            /\ input' = <<>>
            /\ messages' = Append(messages, Msg("user", trim(input)))
            /\ isLoading' = TRUE
            /\ upc' = "try"
            /\ outcome' = "pending"
            /\ submit' = "accepted"
            /\ UNCHANGED <<useStreaming, request, wire, transport, served, lines,
                           assistantText, tokens, tokensLeft>>
    /\ UNCHANGED <<svars, lvars>>

\* onSend without setIsLoading(true)
onSend_noSetLoading ==
    /\ AtAwait
    /\ IF trim(input) = <<>> \/ isLoading
       THEN /\ submit' = "ignored"
            /\ UNCHANGED <<messages, input, useStreaming, isLoading, upc, prompt,
                           onSend_messages, request, wire, transport, served, lines,
                           assistantText, tokens, submitsLeft, tokensLeft, outcome>>
       ELSE /\ submitsLeft > 0
            /\ submitsLeft' = submitsLeft - 1
            /\ prompt' = trim(input)
            /\ onSend_messages' = messages
            /\ input' = <<>>
            /\ messages' = Append(messages, Msg("user", trim(input)))
            /\ isLoading' = isLoading
            /\ upc' = "try"
            /\ outcome' = "pending"
            /\ submit' = "accepted"
            /\ UNCHANGED <<useStreaming, request, wire, transport, served, lines,
                           assistantText, tokens, tokensLeft>>
    /\ UNCHANGED <<svars, lvars>>

\* onSend, up to setIsLoading(true): a blank input or a pending request
\* returns at once
onSend ==
    /\ AtAwait
    /\ IF trim(input) = <<>> \/ isLoading
       THEN /\ submit' = "ignored"
            /\ UNCHANGED <<messages, input, useStreaming, isLoading, upc, prompt,
                           onSend_messages, request, wire, transport, served, lines,
                           assistantText, tokens, submitsLeft, tokensLeft, outcome>>
       ELSE /\ submitsLeft > 0
            /\ submitsLeft' = submitsLeft - 1
            /\ prompt' = trim(input)
            /\ onSend_messages' = messages
            /\ input' = <<>>
            /\ messages' = Append(messages, Msg("user", trim(input)))
            /\ isLoading' = TRUE
            /\ upc' = "try"
            /\ outcome' = "pending"
            /\ submit' = "accepted"
            /\ UNCHANGED <<useStreaming, request, wire, transport, served, lines,
                           assistantText, tokens, tokensLeft>>
    /\ UNCHANGED <<svars, lvars>>

\* finally without setIsLoading(false)
finally_keepsLoading ==
    /\ isLoading' = isLoading
    /\ upc' = "idle"
    /\ prompt' = <<>>
    /\ onSend_messages' = <<>>
    /\ request' = NoRequest
    /\ wire' = <<>>
    /\ served' = <<>>
    /\ lines' = <<>>
    /\ assistantText' = <<>>
    /\ tokens' = <<>>

\* The end of onSend: finally, and the locals of the call are gone
finally ==
    /\ isLoading' = FALSE
    /\ upc' = "idle"
    /\ prompt' = <<>>
    /\ onSend_messages' = <<>>
    /\ request' = NoRequest
    /\ wire' = <<>>
    /\ served' = <<>>
    /\ lines' = <<>>
    /\ assistantText' = <<>>
    /\ tokens' = <<>>

\* sendNonStreaming that posts to the streaming endpoint
sendNonStreaming_toStream ==
    /\ upc = "try"
    /\ ~useStreaming
    /\ request' = fetch("/api/chat/stream", buildPayload(prompt))
    /\ upc' = "fetch"
    /\ UNCHANGED <<messages, input, useStreaming, isLoading, prompt, onSend_messages,
                   wire, transport, served, lines, assistantText, tokens, submitsLeft, tokensLeft, outcome>>
    /\ UNCHANGED <<submit, svars, lvars>>

\* sendNonStreaming, up to `await fetch("/api/chat", ...)`
sendNonStreaming ==
    /\ upc = "try"
    /\ ~useStreaming
    /\ request' = fetch("/api/chat", buildPayload(prompt))
    /\ upc' = "fetch"
    /\ UNCHANGED <<messages, input, useStreaming, isLoading, prompt, onSend_messages,
                   wire, transport, served, lines, assistantText, tokens, submitsLeft, tokensLeft, outcome>>
    /\ UNCHANGED <<submit, svars, lvars>>

\* sendNonStreaming after the fetch settles: the reply is appended, or the
\* failure is caught by onSend
sendNonStreaming_settles(res) ==
    /\ upc = "fetch"
    /\ messages' = IF res.kind = "reject" \/ ~res.ok
                   THEN catch(messages)
                   ELSE Append(messages,
                               Msg("assistant", Coalesce(res.reply, Str(<<".", ".", ".">>)).s))
    /\ outcome' = IF res.kind = "reject" \/ ~res.ok THEN "failed" ELSE "ok"
    /\ finally
    /\ UNCHANGED <<input, useStreaming, transport, submitsLeft, tokensLeft>>
    /\ UNCHANGED <<submit, svars, lvars>>

\* sendStreaming, up to `await fetch("/api/chat/stream", ...)`
sendStreaming ==
    /\ upc = "try"
    /\ useStreaming
    /\ messages' = Append(messages, Msg("assistant", <<>>))
    /\ request' = fetch("/api/chat/stream", buildPayload(prompt))
    /\ upc' = "fetchStream"
    /\ UNCHANGED <<input, useStreaming, isLoading, prompt, onSend_messages,
                   wire, transport, served, lines, assistantText, tokens, submitsLeft, tokensLeft, outcome>>
    /\ UNCHANGED <<submit, svars, lvars>>

\* sendStreaming after the fetch settles: the failure is caught by onSend, or
\* the reader is taken
sendStreaming_settles(res) ==
    /\ upc = "fetchStream"
    /\ Cost(res) <= tokensLeft
    /\ tokensLeft' = tokensLeft - Cost(res)
    /\ outcome' = IF res.kind = "reject" \/ ~res.ok \/ ~res.hasBody THEN "failed" ELSE "ok"
    /\ IF res.kind = "reject" \/ ~res.ok \/ ~res.hasBody
       THEN /\ messages' = catch(messages)
            /\ finally
       ELSE /\ wire' = StreamBody(res.frags, res.ending, res.noise)
            /\ served' = res.frags
            /\ assistantText' = <<>>
            /\ upc' = "read"
            /\ UNCHANGED <<messages, isLoading, prompt, onSend_messages, request,
                           lines, tokens>>
    /\ UNCHANGED <<input, useStreaming, transport, submitsLeft>>
    /\ UNCHANGED <<submit, svars, lvars>>

\* `await reader.read()` yields a chunk, which is split into lines
sendStreaming_read ==
    /\ upc = "read"
    /\ wire # <<>>
    /\ IF transport = "recut"
       THEN LET flat == Flatten(wire)
            IN  \E n \in 1..Len(flat) :
                    /\ lines' = split(SubSeq(flat, 1, n))
                    /\ wire' = IF n = Len(flat) THEN <<>>
                               ELSE <<SubSeq(flat, n + 1, Len(flat))>>
       ELSE /\ lines' = split(Head(wire))
            /\ wire' = Tail(wire)
    /\ upc' = "lines"
    /\ UNCHANGED <<messages, input, useStreaming, isLoading, prompt, onSend_messages,
                   request, transport, served, assistantText, tokens, submitsLeft, tokensLeft, outcome>>
    /\ UNCHANGED <<submit, svars, lvars>>

\* sendStreaming_line whose JSON.parse failure is not caught
sendStreaming_line_rethrows ==
    /\ upc = "lines"
    /\ LET trimmed == trim(Head(lines))
           token == lineToken(Head(lines))
       IN  IF /\ trimmed # <<>>
              /\ startsWithData(trimmed)
              /\ slice6(trimmed) # <<"[DONE]">>
              /\ ~JSONParse(slice6(trimmed)).ok
           THEN /\ messages' = catch(messages)
                /\ outcome' = "cut"
                /\ finally
                /\ UNCHANGED <<input, useStreaming, transport, submitsLeft, tokensLeft>>
           ELSE /\ IF token.t = "string"
                   THEN /\ assistantText' = assistantText \o token.s
                        /\ messages' = updateLast(messages, assistantText')
                        /\ tokens' = Append(tokens, token.s)
                   ELSE UNCHANGED <<assistantText, messages, tokens>>
                /\ lines' = Tail(lines)
                /\ upc' = IF Tail(lines) = <<>> THEN "read" ELSE "lines"
                /\ UNCHANGED <<input, useStreaming, isLoading, prompt, onSend_messages,
                               request, wire, transport, served, submitsLeft, tokensLeft,
                               outcome>>
    /\ UNCHANGED <<submit, svars, lvars>>

\* One turn of `for (const line of lines)`
sendStreaming_line ==
    /\ upc = "lines"
    /\ LET token == lineToken(Head(lines))
       IN  IF token.t = "string"
           THEN /\ assistantText' = assistantText \o token.s
                /\ messages' = updateLast(messages, assistantText')
                /\ tokens' = Append(tokens, token.s)
           ELSE UNCHANGED <<assistantText, messages, tokens>>
    /\ lines' = Tail(lines)
    /\ upc' = IF Tail(lines) = <<>> THEN "read" ELSE "lines"
    /\ UNCHANGED <<input, useStreaming, isLoading, prompt, onSend_messages,
                   request, wire, transport, served, submitsLeft, tokensLeft, outcome>>
    /\ UNCHANGED <<submit, svars, lvars>>

\* `await reader.read()` reports the end of the body: sendStreaming returns
sendStreaming_returns ==
    /\ upc = "read"
    /\ wire = <<>>
    /\ finally
    /\ UNCHANGED <<messages, input, useStreaming, transport, submitsLeft, tokensLeft, outcome>>
    /\ UNCHANGED <<submit, svars, lvars>>

\* `await reader.read()` rejects: the failure is caught by onSend
sendStreaming_readRejects ==
    /\ upc = "read"
    /\ messages' = catch(messages)
    /\ outcome' = "cut"
    /\ finally
    /\ UNCHANGED <<input, useStreaming, transport, submitsLeft, tokensLeft>>
    /\ UNCHANGED <<submit, svars, lvars>>

\* ---------------------------------------- local-model handler (page.tsx POST)

MaxLocalMessages == 2

\* 0.8, in tenths
DefaultTemperature == 8

Message(role, content) == [role |-> role, content |-> content]

LocalMessageValues ==
    {Message("user", <<"a">>), Message("system", <<"s">>), Message("user", <<>>)}

\* body.messages: absent, or an array
NoMessages == [present |-> FALSE, items |-> <<>>]
MessagesValues ==
    {NoMessages}
    \cup {[present |-> TRUE, items |-> m] : m \in SeqsUpTo(LocalMessageValues, MaxLocalMessages)}

\* body.temperature, in tenths
LocalBodies ==
    {[messages |-> m, system_prompt |-> sp, model |-> md, temperature |-> t] :
        m \in MessagesValues,
        sp \in {Undef, Str(<<>>), Str(<<"p">>)},
        md \in {Undef, Str(<<>>), Str(<<"m">>)},
        t \in {Undef, Num(0), Num(5)}}

NoLocalBody ==
    [messages |-> NoMessages, system_prompt |-> Undef, model |-> Undef, temperature |-> Undef]
NoForward == [model |-> <<>>, messages |-> NoMessages, temperature |-> 0]

\* The truthiness of a value in a condition or on the left of ||
Truthy(v) ==
    CASE v.t = "string" -> v.s # <<>>
      [] v.t = "number" -> v.n # 0
      [] v.t = "object" -> TRUE
      [] OTHER -> FALSE

\* [...messages] of a missing messages throws
Local_spreadThrows(b) == Truthy(b.system_prompt) /\ ~b.messages.present

\* allMessages
Local_allMessages(b) ==
    IF Truthy(b.system_prompt)
    THEN [present |-> TRUE,
          items |-> <<Message("system", b.system_prompt.s)>> \o b.messages.items]
    ELSE b.messages

\* The body sent to the local backend
Local_forward(b) ==
    [model |-> IF Truthy(b.model) THEN b.model.s ELSE <<"pirate-bot">>,
     messages |-> Local_allMessages(b),
     temperature |-> IF Truthy(b.temperature) THEN b.temperature.n ELSE DefaultTemperature]

LocalInit ==
    /\ lpc = "idle"
    /\ lbody = NoLocalBody
    /\ forwarded = NoForward

\* POST of the local-model handler, up to `await fetch(...)`
Local_POST ==
    /\ lpc = "idle"
    /\ \E b \in LocalBodies :
          /\ lbody' = b
          /\ IF Local_spreadThrows(b)
             THEN /\ forwarded' = NoForward
                  /\ lpc' = "failed"
             ELSE /\ forwarded' = Local_forward(b)
                  /\ lpc' = "fetch"
    /\ UNCHANGED <<svars, uvars>>

\* The local backend answers: its body is returned as the response
Local_fetchReturns ==
    /\ lpc = "fetch"
    /\ lpc' = "done"
    /\ UNCHANGED <<lbody, forwarded>>
    /\ UNCHANGED <<svars, uvars>>

\* The call to the local backend rejects: the handler fails
Local_fetchRejects ==
    /\ lpc = "fetch"
    /\ lpc' = "failed"
    /\ UNCHANGED <<lbody, forwarded>>
    /\ UNCHANGED <<svars, uvars>>

\* The handler is over and its locals are gone
Local_return ==
    /\ lpc \in {"done", "failed"}
    /\ lpc' = "idle"
    /\ lbody' = NoLocalBody
    /\ forwarded' = NoForward
    /\ UNCHANGED <<svars, uvars>>

LocalNext ==
    \/ Local_POST
    \/ Local_fetchReturns
    \/ Local_fetchRejects
    \/ Local_return

\* The endpoints, with the page at rest
Init ==
    /\ ServerInit
    /\ UIInit
    /\ LocalInit
    /\ transport = "as-enqueued"
    /\ submitsLeft = 0
    /\ tokensLeft = 0

Next ==
    \/ Primary_POST
    \/ \E r \in GenerateResults : Primary_generateContentReturns(r)
    \/ \E e \in BackendErrors : Primary_generateContentThrows(e)
    \/ Stream_POST
    \/ Stream_generateContentStreamReturns
    \/ \E e \in BackendErrors : Stream_generateContentStreamThrows(e)
    \/ \E text \in FragmentTexts : Stream_chunk(text)
    \/ Stream_done
    \/ \E e \in BackendErrors : Stream_catch(e)
    \/ Handler_return

Spec == Init /\ [][Next]_vars

ServerAtRest ==
    /\ apiKey = TRUE
    /\ spc = "idle"
    /\ endpoint = "none"
    /\ body = NoBody
    /\ contents = <<>>
    /\ backendCalls = 0
    /\ result = NoResult
    /\ response = NoResponse
    /\ fragments = <<>>
    /\ backend = "none"
    /\ records = <<>>
    /\ closed = FALSE

UINext ==
    \/ \E text \in InputTexts : onChange(text)
    \/ toggle
    \/ onSend
    \/ sendNonStreaming
    \/ \E res \in PrimaryResponses : sendNonStreaming_settles(res)
    \/ sendStreaming
    \/ \E res \in StreamResponses : sendStreaming_settles(res)
    \/ sendStreaming_read
    \/ sendStreaming_line
    \/ sendStreaming_returns
    \/ sendStreaming_readRejects

\* The page over a session of MaxSubmits submissions; the response body
\* arrives in the chunks the endpoint enqueued
PageInit ==
    /\ ServerAtRest
    /\ UIInit
    /\ LocalInit
    /\ transport = "as-enqueued"
    /\ submitsLeft = MaxSubmits
    /\ tokensLeft = MaxTokens

PageSpec == PageInit /\ [][UINext]_vars

\* The local-model handler, with the page and the other endpoints at rest
LocalSpec == PageInit /\ [][LocalNext]_vars

\* The page over one submission; the transport cuts the response body into
\* chunks anywhere
ChunkInit ==
    /\ ServerAtRest
    /\ UIInit
    /\ LocalInit
    /\ transport = "recut"
    /\ submitsLeft = 1
    /\ tokensLeft = MaxTokens

ChunkSpec == ChunkInit /\ [][UINext]_vars

\* ------------------------------------------------------------------ claims

\* The entries of the request's history array
RequestItems ==
    IF body.kind = "object" /\ body.history.t = "array" THEN body.history.items ELSE <<>>

\* The content of a history entry as text: empty when the entry has none
EntryText(m) ==
    IF m.kind # "object" \/ m.content.t \in {"undefined", "null"} THEN <<>>
    ELSE String(m.content)

IsBlank(s) == \A i \in 1..Len(s) : s[i] \in Whitespace

\* The positions of the history entries whose content is not blank, in order
Survivors(items) ==
    SelectSeq([i \in 1..Len(items) |-> i], LAMBDA i : ~IsBlank(EntryText(items[i])))

\* The prompt of the request as text: empty when the body has none
PromptText ==
    IF body.kind = "object" /\ body.prompt.t \notin {"undefined", "null"}
    THEN String(body.prompt) ELSE <<>>

PersonaText ==
    IF endpoint = "primary" THEN Primary_SYSTEM_PREAMBLE ELSE Stream_SYSTEM_PREAMBLE

\* rec is the stream record `data: {"token": text}` followed by a blank line
IsTokenRecordOf(rec, text) ==
    /\ Len(rec) >= 4
    /\ rec[1] = "data: "
    /\ rec[Len(rec) - 1] = "\n"
    /\ rec[Len(rec)] = "\n"
    /\ JSONParse(SubSeq(rec, 2, Len(rec) - 2)) = [ok |-> TRUE, token |-> Str(text)]

IsTerminal(rec) == rec[1] \in {"event: done", "event: error"}

\* C1: when the backend stream of the streaming endpoint ends without error,
\* the response body is one token record per fragment with non-empty text, in
\* the order the backend produced them, followed by exactly one done record,
\* after which the stream is closed.
C1_DoneBody ==
    (endpoint = "stream" /\ backend = "exhausted") =>
        LET texts == SelectSeq(fragments, LAMBDA f : f # <<>>)
            n == Len(texts)
        IN  /\ Len(records) = n + 1
            /\ \A k \in 1..n : IsTokenRecordOf(records[k], texts[k])
            /\ records[n + 1] = <<"event: done", "\n", "data: ", "[DONE]", "\n", "\n">>
            /\ closed
            /\ spc = "done"

C1_Witness ==
    /\ endpoint = "stream"
    /\ backend = "exhausted"
    /\ fragments = <<<<"B", "\n">>, <<>>, <<"A">>>>

\* C2: a response of the streaming endpoint is either a status-500 plain-text
\* response without any stream record (the stream was never opened), or an
\* opened stream that ends with exactly one terminal record, done when the
\* backend stream was exhausted and error when consuming it failed; a terminal
\* record is the last record and the stream is closed after it.
C2_ResponseShapes ==
    endpoint = "stream" =>
        /\ \A k \in 1..Len(records) :
              IsTerminal(records[k]) => (k = Len(records) /\ closed /\ spc = "done")
        /\ closed => (records # <<>> /\ IsTerminal(records[Len(records)]))
        /\ spc = "done" =>
              \/ /\ backend \in {"none", "rejected"}
                 /\ response.status = 500
                 /\ response.kind = "text"
                 /\ records = <<>>
                 /\ ~closed
              \/ /\ backend = "exhausted"
                 /\ response.kind = "stream"
                 /\ closed
                 /\ records[Len(records)][1] = "event: done"
              \/ /\ backend = "failed"
                 /\ response.kind = "stream"
                 /\ closed
                 /\ records[Len(records)][1] = "event: error"

C2_Witness ==
    /\ endpoint = "stream"
    /\ backend = "failed"
    /\ Len(records) = 3

\* C3: without GOOGLE_API_KEY every request to either endpoint is answered
\* with status 500 and the backend is never called.
C3_NoKeyNoCall ==
    (~apiKey /\ spc # "idle") =>
        /\ spc = "done"
        /\ response.status = 500
        /\ backendCalls = 0
        /\ contents = <<>>

C3_Witness ==
    /\ ~apiKey
    /\ endpoint = "primary"
    /\ spc = "done"
    /\ body.kind = "object"
    /\ Len(Survivors(RequestItems)) = 2

\* C4: the content array of a backend call has length 2 + the number of
\* surviving history entries; it starts with the persona text as a user turn,
\* ends with the prompt as a user turn (empty text when the prompt is
\* omitted), and carries the surviving entries in between in their order.
C4_ContentFrame ==
    backendCalls = 1 =>
        LET surv == Survivors(RequestItems)
            n == Len(contents)
        IN  /\ n = 2 + Len(surv)
            /\ contents[1] = [role |-> "user", text |-> PersonaText]
            /\ contents[n] = [role |-> "user", text |-> PromptText]
            /\ \A k \in 1..Len(surv) :
                  contents[k + 1].text = EntryText(RequestItems[surv[k]])

C4_Witness ==
    /\ backendCalls = 1
    /\ endpoint = "stream"
    /\ body.prompt = Undef
    /\ Len(RequestItems) = 2
    /\ Len(contents) = 3

\* C5: a history entry with role "assistant" becomes a "model" turn; an entry
\* with role "user", with any other role or with no role becomes a "user" turn.
C5_RoleCoercion ==
    backendCalls = 1 =>
        LET surv == Survivors(RequestItems)
        IN  /\ Len(contents) = 2 + Len(surv)
            /\ \A k \in 1..Len(surv) :
                  contents[k + 1].role =
                      IF RequestItems[surv[k]].role = Str(ASSISTANT) THEN "model" ELSE "user"

C5_Witness ==
    /\ backendCalls = 1
    /\ endpoint = "stream"
    /\ Len(RequestItems) = 2
    /\ RequestItems[1].role = Str(BOGUS)
    /\ RequestItems[2].role = Str(ASSISTANT)
    /\ Len(contents) = 4
    /\ contents[2].role = "user"
    /\ contents[3].role = "model"

\* C6: a history entry whose content is absent or blank after trimming gives
\* no turn; every other entry gives exactly one turn with its content as it
\* was sent, not trimmed.
C6_BlankEntriesDropped ==
    backendCalls = 1 =>
        LET texts == [k \in 1..Len(RequestItems) |-> EntryText(RequestItems[k])]
            kept == SelectSeq(texts, LAMBDA t : \E i \in 1..Len(t) : t[i] \notin Whitespace)
        IN  [k \in 1..(Len(contents) - 2) |-> contents[k + 1].text] = kept

C6_Witness ==
    /\ backendCalls = 1
    /\ endpoint = "primary"
    /\ Len(RequestItems) = 2
    /\ RequestItems[1] = ObjEntry(Str(USER), Str(<<" ", "\n">>))
    /\ RequestItems[2] = ObjEntry(Str(USER), Str(<<" ", "a", " ">>))
    /\ Len(contents) = 3
    /\ contents[2].text = <<" ", "a", " ">>

\* The text of the first part of the first candidate, when there is one
FirstPartText ==
    LET cs == result.candidates
    IN  IF /\ result.response
           /\ cs.present
           /\ cs.items # <<>>
           /\ Head(cs.items).content
           /\ Head(cs.items).parts.present
           /\ Head(cs.items).parts.items # <<>>
        THEN Head(Head(cs.items).parts.items).text
        ELSE Undef

\* C7: when the backend call of the one-shot endpoint succeeds, the response
\* is status 200 with the reply set to the text of the first part of the
\* first candidate, and to "..." when there is no such text.
C7_Reply ==
    (endpoint = "primary" /\ backend = "resolved") =>
        /\ response.status = 200
        /\ response.kind = "json-reply"
        /\ response.text = IF FirstPartText.t = "string" THEN FirstPartText.s
                           ELSE <<".", ".", ".">>

C7_Witness ==
    /\ endpoint = "primary"
    /\ backend = "resolved"
    /\ Len(result.candidates.items) = 2
    /\ response.text = HELLO

\* s is t with elements left out
RECURSIVE IsSubsequence(_, _)
IsSubsequence(s, t) ==
    IF s = <<>> THEN TRUE
    ELSE IF t = <<>> THEN FALSE
    ELSE IF Head(s) = Head(t) THEN IsSubsequence(Tail(s), Tail(t))
    ELSE IsSubsequence(s, Tail(t))

\* The position of the last user message
LastUser ==
    CHOOSE u \in 1..Len(messages) :
        /\ messages[u].role = "user"
        /\ \A v \in (u + 1)..Len(messages) : messages[v].role # "user"

\* C8: an accepted Submit clears the input and appends exactly one user
\* message with the trimmed input, with no request dispatched yet; when the
\* request is dispatched, to either endpoint, that message is already in
\* `messages` and the request carries the same trimmed text as its prompt.
C8_AppendBeforeDispatch ==
    [][ /\ (upc = "idle" /\ upc' # "idle") =>
              /\ input' = <<>>
              /\ messages' = Append(messages, Msg("user", trim(input)))
              /\ trim(input) # <<>>
              /\ request' = NoRequest
        /\ (request = NoRequest /\ request' # NoRequest) =>
              /\ request'.url = (IF useStreaming THEN "/api/chat/stream" ELSE "/api/chat")
              /\ request'.prompt = trim(request'.prompt)
              /\ Len(messages) = Len(request'.history) + 1
              /\ messages[Len(messages)] = Msg("user", request'.prompt)
              /\ SubSeq(messages', 1, Len(messages)) = messages
      ]_vars

C8_Witness ==
    /\ request.url = "/api/chat"
    /\ request.prompt = <<"h", " ", "i">>
    /\ input = <<>>
    /\ messages[Len(messages)] = Msg("user", <<"h", " ", "i">>)
    /\ Len(messages) = 4

\* C9: while a streamed reply is read, the last message is the assistant
\* message of this submission and its content is the concatenation of the
\* tokens received so far, in the order the response carries them; every
\* message before it is as it was when the placeholder was appended, so no
\* message is added or duplicated.
C9_StreamedContent ==
    upc \in {"read", "lines"} =>
        /\ Len(messages) = Len(onSend_messages) + 2
        /\ SubSeq(messages, 1, Len(onSend_messages)) = onSend_messages
        /\ messages[Len(messages) - 1] = Msg("user", prompt)
        /\ messages[Len(messages)] = Msg("assistant", Flatten(tokens))
        /\ IsSubsequence(tokens, served)

C9_Witness ==
    /\ upc = "read"
    /\ wire # <<>>
    /\ tokens = <<<<"A">>, <<"\n", "B">>>>
    /\ messages[Len(messages)].content = <<"A", "\n", "B">>

\* C10: when the endpoint call of a submission rejects, is answered with a
\* non-success status or (streaming) carries no body, the only message the
\* submission adds after the user message is the fallback message, and
\* isLoading is false once the submission has finished.
C10_FailureAddsOneMessage ==
    (upc = "idle" /\ outcome = "failed") =>
        /\ SubSeq(messages, LastUser + 1, Len(messages)) = <<Msg("assistant", FALLBACK)>>
        /\ ~isLoading

\* C11: an accepted Submit keeps the messages and the trimmed input it was
\* made with; its request is dispatched before the toggle can be used again,
\* to the streaming endpoint when useStreaming is true and to the one-shot
\* endpoint when it is false, and in both modes the payload is those messages
\* as history and that trimmed input as prompt.
C11_RouteByToggle ==
    [][ /\ (upc = "idle" /\ upc' # "idle") =>
              /\ onSend_messages' = messages
              /\ prompt' = trim(input)
              /\ useStreaming' = useStreaming
        /\ (upc = "try") =>
              /\ request = NoRequest
              /\ request' # NoRequest
              /\ useStreaming' = useStreaming
        /\ (request = NoRequest /\ request' # NoRequest) =>
              /\ upc = "try"
              /\ request'.url = (IF useStreaming THEN "/api/chat/stream" ELSE "/api/chat")
              /\ request'.history = onSend_messages
              /\ request'.prompt = prompt
      ]_vars

C11_Witness ==
    /\ request.url = "/api/chat"
    /\ useStreaming
    /\ Len(request.history) = 3
    /\ request.history[3].role = "assistant"

\* C12: a Submit is ignored only when the trimmed input is empty or a request
\* is in flight, and it then changes none of messages, input, isLoading and
\* useStreaming and dispatches nothing; in such a state no step starts a
\* submission, appends a user message or raises isLoading, and the only
\* request dispatched is the one of the submission already running.
C12_IgnoredSubmitIsNoOp ==
    [][ /\ (submit' = "ignored" /\ submit # "ignored") =>
              /\ trim(input) = <<>> \/ isLoading
              /\ UNCHANGED <<messages, input, isLoading, useStreaming, request, upc>>
        /\ (trim(input) = <<>> \/ isLoading) =>
              /\ submit' = "accepted" => submit = "accepted"
              /\ upc' # "try"
              /\ isLoading' => isLoading
              /\ ~(/\ Len(messages') = Len(messages) + 1
                    /\ messages'[Len(messages')].role = "user")
              /\ (request' # request /\ request' # NoRequest) => upc = "try"
      ]_vars

C12_Witness ==
    /\ submit = "ignored"
    /\ isLoading
    /\ upc = "read"
    /\ trim(input) # <<>>
    /\ tokens # <<>>

\* C13: with the credential configured, every request body that is a JSON
\* value, whatever the types of its history, of the entries and of its
\* prompt, gets through sanitization and content construction and reaches the
\* backend call.
C13_NoBodyRejected ==
    (apiKey /\ spc # "idle" /\ body.kind \in {"object", "null"}) => backendCalls = 1

\* C14: however the response body is cut into read chunks, once the whole
\* body has been read the content of the trailing assistant message is the
\* concatenation, in order, of all the tokens the stream carries.
C14_ChunkingIndependent ==
    (upc = "read" /\ wire = <<>>) => messages[Len(messages)].content = Flatten(served)

\* C15: the history of a dispatched request is the messages as they were
\* before the Submit that caused it: the new user message is the element of
\* `messages` right after the history and travels only as the prompt, the
\* assistant placeholder of a streaming send comes after that, and nothing
\* that happens to `messages` while the request is in flight changes the
\* request.
C15_HistoryBeforeSubmit ==
    /\ [](request # NoRequest =>
             LET n == Len(request.history)
             IN  /\ request.history = onSend_messages
                 /\ SubSeq(messages, 1, n) = request.history
                 /\ Len(messages) > n
                 /\ messages[n + 1] = Msg("user", request.prompt)
                 /\ request.url = "/api/chat" => Len(messages) = n + 1
                 /\ request.url = "/api/chat/stream" =>
                        /\ Len(messages) = n + 2
                        /\ messages[n + 2].role = "assistant")
    /\ [][ /\ (upc = "idle" /\ upc' # "idle") => onSend_messages' = messages
           /\ (request # NoRequest /\ request' # NoRequest) => request' = request
         ]_vars

C15_Witness ==
    /\ request.url = "/api/chat/stream"
    /\ Len(request.history) = 3
    /\ Len(messages) = 5
    /\ messages[5].content = <<"A">>

\* A step of a running send: a continuation of onSend is run, or the
\* endpoint call or a read of the response body settles
SendStep ==
    \/ sendNonStreaming
    \/ \E res \in PrimaryResponses : sendNonStreaming_settles(res)
    \/ sendStreaming
    \/ \E res \in StreamResponses : sendStreaming_settles(res)
    \/ sendStreaming_read
    \/ sendStreaming_line
    \/ sendStreaming_returns
    \/ sendStreaming_readRejects

\* The page when a running send is never left waiting for ever: its pending
\* continuation is eventually run and its pending call eventually settles
LiveInit ==
    /\ ServerAtRest
    /\ UIInit
    /\ LocalInit
    /\ transport = "as-enqueued"
    /\ submitsLeft = MaxLiveSubmits
    /\ tokensLeft = MaxTokens

PageLiveSpec == LiveInit /\ [][UINext]_vars /\ WF_vars(SendStep)

\* C16: isLoading is true exactly while a submission is running, from the
\* accepted Submit to the end of its send: it is false at the start, true
\* whenever a request is pending, and false again once the send has ended,
\* with success or with failure; and every state with isLoading true is
\* eventually followed by one with isLoading false.
C16_LoadingWhileInFlight ==
    /\ [](/\ isLoading <=> upc # "idle"
          /\ request # NoRequest => isLoading
          /\ outcome \in {"ok", "failed", "cut"} /\ upc = "idle" => ~isLoading)
    /\ [](isLoading => <>(~isLoading))

C16_Witness ==
    /\ ~isLoading
    /\ outcome = "cut"
    /\ submit = "ignored"
    /\ Len(messages) = 4

\* The payload of a data line that carries a token: {"token":"..."} with a
\* non-empty, well-formed string
IsTokenPayload(p) ==
    /\ Len(p) >= 3
    /\ p[1] = "{\"token\":\""
    /\ p[Len(p)] = "\"}"
    /\ \A i \in 2..(Len(p) - 1) : JSONStringChar(p[i])

\* A line the client is to skip: blank, an event line, data: [DONE], or a
\* data line whose payload is not JSON or has no token or an empty one
IsSkippedLine(line) ==
    LET t == trim(line)
    IN  \/ t = <<>>
        \/ t[1] \in {"event: done", "event: error"}
        \/ t = <<"data: ", "[DONE]">>
        \/ /\ Len(t) >= 2
           /\ t[1] = "data: "
           /\ ~IsTokenPayload(SubSeq(t, 2, Len(t)))

\* C17: handling a line that is blank, an event line, data: [DONE], or a data
\* line whose payload is not JSON or has no token or an empty one (the data
\* line of an error record among them) leaves messages and the accumulator
\* as they are and the read goes on with the next line or the next chunk;
\* when the body ends the send returns without adding a message.
C17_SkippedLines ==
    [][ /\ (upc = "lines" /\ IsSkippedLine(Head(lines))) =>
              /\ messages' = messages
              /\ assistantText' = assistantText
              /\ upc' = (IF Tail(lines) = <<>> THEN "read" ELSE "lines")
              /\ lines' = Tail(lines)
              /\ outcome' = "ok"
              /\ isLoading'
        /\ (upc = "read" /\ upc' = "idle" /\ outcome' = "ok") =>
              /\ wire = <<>>
              /\ messages' = messages
      ]_vars

C17_Witness ==
    /\ upc = "lines"
    /\ Head(lines) = <<"data: ", "{\"error\":\"", "b", "o", "o", "m", "\"}">>
    /\ assistantText = <<"A">>
    /\ messages[Len(messages)] = Msg("assistant", <<"A">>)
    /\ outcome = "ok"

\* C18: a Submit is accepted, and a request dispatched, only when no send is
\* running and no request is pending; so while a streaming send runs the
\* last message is the assistant message that send appended, right after the
\* user message of the same submission, holding what the send has
\* accumulated, and the messages before them are those of the Submit.
C18_SendsSerialized ==
    /\ [](upc \in {"fetchStream", "read", "lines"} =>
             /\ request.url = "/api/chat/stream"
             /\ request.prompt = prompt
             /\ Len(messages) = Len(request.history) + 2
             /\ messages[Len(messages) - 1] = Msg("user", prompt)
             /\ messages[Len(messages)] = Msg("assistant", assistantText))
    /\ [][ /\ (/\ Len(messages') = Len(messages) + 1
               /\ messages'[Len(messages')].role = "user") =>
                  /\ upc = "idle"
                  /\ request = NoRequest
                  /\ ~isLoading
           /\ (request' # request /\ request' # NoRequest) => request = NoRequest
           /\ (upc # "idle" /\ upc' # "idle") =>
                  /\ prompt' = prompt
                  /\ onSend_messages' = onSend_messages
         ]_vars

C18_Witness ==
    /\ upc = "lines"
    /\ submit = "ignored"
    /\ ~useStreaming
    /\ trim(input) # <<>>
    /\ Len(messages) = 5
    /\ messages[5] = Msg("assistant", <<"A">>)
    /\ messages[3].role = "assistant"

\* The content array a request body calls for, whatever the endpoint
ExpectedContents(b) ==
    LET items == IF b.kind = "object" /\ b.history.t = "array" THEN b.history.items ELSE <<>>
        surv == Survivors(items)
        text == IF b.kind = "object" /\ b.prompt.t \notin {"undefined", "null"}
                THEN String(b.prompt) ELSE <<>>
    IN  <<[role |-> "user", text |-> Primary_SYSTEM_PREAMBLE]>>
        \o [k \in 1..Len(surv) |->
              [role |-> IF items[surv[k]].role = Str(ASSISTANT) THEN "model" ELSE "user",
               text |-> EntryText(items[surv[k]])]]
        \o <<[role |-> "user", text |-> text]>>

\* The bodies either endpoint takes as far as the backend call
ReachesBackend(b) ==
    /\ apiKey
    /\ b.kind \in {"object", "null"}
    /\ b.kind = "object" => b.history.t \in {"undefined", "null", "array"}

C20_SystemPromptPrepended ==
    (lpc \in {"fetch", "done"} /\ lbody.messages.present) =>
        forwarded.messages.items =
            IF lbody.system_prompt.t = "string"
            THEN <<[role |-> "system", content |-> lbody.system_prompt.s]>>
                 \o lbody.messages.items
            ELSE lbody.messages.items

\* C21: no step of the page shortens `messages`, touches the greeting at
\* the first position, or changes the role of a message; the only content a
\* step changes is that of the last message while a streaming send is
\* handling the lines of its response, and that message is the assistant
\* placeholder of the running submission.
C21_AppendOnly ==
    [][ /\ Len(messages') >= Len(messages)
        /\ messages[1] = Msg("assistant", GREETING)
        /\ messages'[1] = messages[1]
        /\ \A i \in 1..Len(messages) :
              /\ messages'[i].role = messages[i].role
              /\ messages'[i].content # messages[i].content =>
                    /\ i = Len(messages)
                    /\ Len(messages') = Len(messages)
                    /\ messages[i].role = "assistant"
                    /\ upc = "lines"
                    /\ i = Len(request.history) + 2
      ]_vars

C21_Witness ==
    /\ upc = "read"
    /\ Len(messages) = 5
    /\ messages[3] = Msg("assistant", HELLO)
    /\ messages[4].role = "user"
    /\ messages[5] = Msg("assistant", <<"A", "\n", "B">>)

\* C22: whenever isLoading is false no message has empty content: the empty
\* assistant placeholder exists only while a streaming request is in flight.
C22_NoEmptyMessageAtRest ==
    ~isLoading => \A i \in 1..Len(messages) : messages[i].content # <<>>

====
